---- MODULE Spec2Model ----
(***************************************************************************)
(* Model of the OpenWeatherMap QA automation harness:                      *)
(*   - WeatherPage: the selector-fallback loops and search_for_city        *)
(*   - WeatherAPIClient: the request operations and the shape validators   *)
(*   - get_settings and the pytest fixture graph of conftest.py            *)
(* Each part has its own specification (SpecPage, SpecApi, SpecValidators, *)
(* SpecSession); the variables of the other parts keep their initial       *)
(* values.                                                                 *)
(***************************************************************************)
EXTENDS Integers, Sequences, FiniteSets, TLC

VARIABLES
    \* ---- WeatherPage ----
    pageCall,       \* method of WeatherPage being executed ("none" before any call)
    pagePc,         \* position inside the method
    city,           \* city_name argument of search_for_city
    idx,            \* 1-based position of the for loop in the selector list
    pass,           \* get_error_message: 1 = inside is_error_displayed, 2 = own loop
    evalLog,        \* history: one entry per candidate evaluation
    search_input,   \* local of search_for_city: 0 = None, k = locator of candidate k
    pageOps,        \* history: fill / press / goto / wait_for_load_state calls issued
    pageResult      \* return value of the finished call

pageVars == <<pageCall, pagePc, city, idx, pass, evalLog, search_input, pageOps, pageResult>>

VARIABLES
    \* ---- WeatherAPIClient ----
    apiPc,          \* "idle", "awaiting" (GET sent, response pending), "returned", "raised"
    callCount,      \* history: request operations called so far
    requestsIssued, \* history: request_context.get(...) calls made so far
    lastRequest,    \* the url and params of the latest GET
    lastCall,       \* history: the operation called last and its arguments
    apiExc,         \* the exception the latest operation raised, if it raised
    repeated,       \* history: the latest call had the arguments of the call before it
    apiResponse,    \* the response the GET of the latest call was answered with
    envelope        \* the value the latest call returned, once it has returned

apiVars == <<apiPc, callCount, requestsIssued, lastRequest, lastCall, apiExc, repeated,
            apiResponse, envelope>>

VARIABLES
    \* ---- validate_weather_response / validate_forecast_response ----
    valInput,       \* the response_data argument
    valDone,        \* which validator has been applied ("none" at first)
    valResult       \* what it returned

valVars == <<valInput, valDone, valResult>>

VARIABLES
    \* ---- get_settings ----
    envKey,         \* OPENWEATHER_API_KEY in the environment: "unset", "empty" or "set"
    _settings,      \* module global of settings.py: 0 = None, n = the n-th Settings built
    constructed,    \* history: Settings() constructions completed
    returned,       \* history: the instances get_settings() has returned
    settingsCalls,  \* history: get_settings() calls made
    \* ---- pytest session (conftest.py) ----
    sessPc,         \* "between", "setup", "call", "teardown", "finished"
    todo,           \* fixture setup steps still to run for the current test
    stack,          \* fixtures of the current test that reached their yield, innermost last
    tests,          \* one record per test started, the current test last
    browser,        \* "none", "open", "closed", "launch_failed"
    launchCount,    \* history: successful browser launches
    settingsFixture,\* cached result of the session fixture: "unset", "ok", "raised"
    files           \* the results directory: path |-> the test whose artifact it holds

settingsVars == <<envKey, _settings, constructed, returned, settingsCalls>>
sessVars == <<sessPc, todo, stack, tests, browser, launchCount, settingsFixture, files>>

VARIABLES
    \* ---- wait_for_condition (helpers.py) ----
    waitPc,         \* "idle", "check", "deadline", "sleep", "returned", "raised"
    clock,          \* asyncio.get_event_loop().time(), in ticks
    start_time,     \* local of wait_for_condition
    timeout,        \* argument, in ticks
    interval,       \* argument, in ticks
    error_message,  \* argument
    wake_at,        \* earliest time the pending asyncio.sleep(interval) ends
    condition,      \* what condition() answers at the moment
    firstTrue,      \* history: the time at which the condition first became true
                    \* since the call started, as a set of at most one time
    conditionCalls, \* history: evaluations of condition() in the current call
    waitExc         \* the exception the latest call raised

waitVars == <<waitPc, clock, start_time, timeout, interval, error_message, wake_at,
              condition, firstTrue, conditionCalls, waitExc>>

VARIABLES
    \* ---- get_logger (logger.py) ----
    loggers,        \* the logging module's registry: name |-> [handlers, level]
    loggerCalls,    \* history: get_logger calls made
    calledNames,    \* history: the logger names get_logger has been asked for
    handlersMade,   \* history: handlers get_logger has created
    lastLogger,     \* the name of the logger the latest call returned
    emitted         \* history: handler.emit calls made for the latest log record

logVars == <<loggers, loggerCalls, calledNames, handlersMade, lastLogger, emitted>>

vars == <<pageVars, apiVars, valVars, settingsVars, sessVars, waitVars, logVars>>

\* what the operations of one part leave alone: the state of the other parts
PageFrame == UNCHANGED <<apiVars, valVars, settingsVars, sessVars, waitVars, logVars>>
ApiFrame == UNCHANGED <<pageVars, valVars, settingsVars, sessVars, waitVars, logVars>>
ValFrame == UNCHANGED <<pageVars, apiVars, settingsVars, sessVars, waitVars, logVars>>
SessFrame == UNCHANGED <<pageVars, apiVars, valVars, waitVars, logVars>>
WaitFrame == UNCHANGED <<pageVars, apiVars, valVars, settingsVars, sessVars, logVars>>
LogFrame == UNCHANGED <<pageVars, apiVars, valVars, settingsVars, sessVars, waitVars>>

-----------------------------------------------------------------------------
(* WeatherPage: class-level locators, weather_page.py:12-18 *)

SEARCH_INPUT == "[data-testid='search-input'], input[placeholder*='city'], #search_str"
SEARCH_BUTTON == "[data-testid='search-button'], button[type='submit'], .search-btn"
WEATHER_INFO == "[data-testid='weather-info'], .weather-widget, .current-weather"
TEMPERATURE == "[data-testid='temperature'], .temperature, .heading"
CITY_NAME == "[data-testid='city-name'], .city-name, h2"
WEATHER_DESCRIPTION == "[data-testid='description'], .weather-description"
ERROR_MESSAGE == "[data-testid='error'], .error, .alert"

search_selectors ==
    <<SEARCH_INPUT, "input[name='q']", "input[id*='search']", "input[placeholder*='Search']">>

temperature_selectors ==
    <<TEMPERATURE, ".temperature", ".temp", "[class*='temperature']">>

city_selectors ==
    <<CITY_NAME, "h1", "h2", ".city", "[class*='city']">>

description_selectors ==
    <<WEATHER_DESCRIPTION, ".description", ".weather-desc", "[class*='description']">>

weather_selectors ==
    <<WEATHER_INFO, ".weather", ".current-weather", "[class*='weather']">>

error_selectors ==
    <<ERROR_MESSAGE, ".error", ".alert-danger", "[class*='error']">>

TextGetters == {"get_temperature", "get_city_name", "get_weather_description"}
Predicates == {"is_weather_info_displayed", "is_error_displayed"}
Resolvers == TextGetters \cup Predicates \cup {"get_error_message"}

\* a page object whose methods try only the class-level locator
SelectorsOfFirstOnly(m) ==
    CASE m = "get_temperature" -> <<TEMPERATURE>>
      [] m = "get_city_name" -> <<CITY_NAME>>
      [] m = "get_weather_description" -> <<WEATHER_DESCRIPTION>>
      [] m = "is_weather_info_displayed" -> <<WEATHER_INFO>>
      [] m = "is_error_displayed" -> <<ERROR_MESSAGE>>
      [] m = "get_error_message" -> <<ERROR_MESSAGE>>
      [] m = "search_for_city" -> <<SEARCH_INPUT>>
      [] OTHER -> <<>>

\* the candidate list each method iterates
SelectorsOf(m) ==
    CASE m = "get_temperature" -> temperature_selectors
      [] m = "get_city_name" -> city_selectors
      [] m = "get_weather_description" -> description_selectors
      [] m = "is_weather_info_displayed" -> weather_selectors
      [] m = "is_error_displayed" -> error_selectors
      [] m = "get_error_message" -> error_selectors
      [] m = "search_for_city" -> search_selectors
      [] OTHER -> <<>>

\* the timeout handed to is_visible
VisibleTimeoutOf(m) == IF m = "is_weather_info_displayed" THEN 10000 ELSE 5000

ui_base_url == "https://openweathermap.org"

\* inputs and what the browser may answer
Cities == {"London", "InvalidCityName123"}
Texts == {"15C", "London, GB"}

\* what one evaluation of a candidate can do, in the order of the statements of
\* the try block: page.locator(selector).first, is_visible(), text_content()
LocatorRaised == "locator_raised"
VisibleRaised == "is_visible_raised"
NotVisible == "not_visible"
Visible == "visible"
TextRaised == "text_content_raised"

None == [kind |-> "None"]
Str(t) == [kind |-> "str", str |-> t]
Bool(b) == [kind |-> "bool", bool |-> b]

\* the value a resolver returns when its loop is exhausted
AbsentOf(m) == IF m \in Predicates THEN Bool(FALSE) ELSE None

\* does the loop of method m read the text after a successful visibility check
ReadsText(m, p) == m \in TextGetters \/ (m = "get_error_message" /\ p = 2)

\* outcomes one loop iteration can have
OutcomesOf(m, p) ==
    {LocatorRaised, VisibleRaised, NotVisible, Visible}
        \cup (IF ReadsText(m, p) THEN {TextRaised} ELSE {})

LogEntry(p, k, sel, o, t) ==
    [pass |-> p, index |-> k, selector |-> sel, outcome |-> o, text |-> t]

\* f-string of weather_page.py:63, kept as its parts (no encoding is applied)
search_url(c) == <<ui_base_url, "/find?q=", c>>

-----------------------------------------------------------------------------
PageInit ==
    /\ pageCall = "none"
    /\ pagePc = "idle"
    /\ city = ""
    /\ idx = 0
    /\ pass = 0
    /\ evalLog = <<>>
    /\ search_input = 0
    /\ pageOps = <<>>
    /\ pageResult = None

PageIdle == pagePc \in {"idle", "returned", "raised"}

\* a test calls one of the resolving methods
CallResolver(m) ==
    /\ PageIdle
    /\ pageCall' = m
    /\ pagePc' = "loop"
    /\ idx' = 1
    /\ pass' = 1
    /\ evalLog' = <<>>
    /\ pageOps' = <<>>
    /\ pageResult' = None
    /\ city' = ""
    /\ search_input' = 0
    /\ PageFrame

\* an except clause that re-raises instead of continuing
ExceptPropagates(o) == "raised"

\* the bare "except: continue" around each candidate
ExceptContinue(o) == "loop"

\* a loop body that lost its return statement
GetterFallsThrough(o) == FALSE

\* "if await element.is_visible(...): return await element.text_content()":
\* the getter returns from inside the loop when both calls succeeded
GetterReturns(o) == o = Visible

\* the visibility check of this evaluation answered True
WasVisible(e) == e.outcome \in {Visible, TextRaised}

\* one iteration of "for selector in ..._selectors" in a text getter
GetterStep ==
    /\ pagePc = "loop"
    /\ pageCall \in TextGetters
    /\ idx <= Len(SelectorsOf(pageCall))
    /\ \E o \in OutcomesOf(pageCall, 1), t \in Texts :
         LET sel == SelectorsOf(pageCall)[idx]
             txt == IF o = Visible THEN t ELSE ""
         IN /\ evalLog' = Append(evalLog, LogEntry(1, idx, sel, o, txt))
            /\ IF GetterReturns(o)
                 THEN /\ pagePc' = "returned"
                      /\ pageResult' = Str(t)
                      /\ idx' = idx
                 ELSE IF o = NotVisible
                 THEN /\ pagePc' = "loop"
                      /\ pageResult' = pageResult
                      /\ idx' = idx + 1
                 ELSE /\ pagePc' = ExceptContinue(o)
                      /\ pageResult' = pageResult
                      /\ idx' = idx + 1
    /\ UNCHANGED <<pageCall, city, pass, search_input, pageOps>>
    /\ PageFrame

\* one iteration of the loop of is_weather_info_displayed / is_error_displayed
PredicateStep ==
    /\ pagePc = "loop"
    /\ pageCall \in Predicates
    /\ idx <= Len(SelectorsOf(pageCall))
    /\ \E o \in OutcomesOf(pageCall, 1) :
         LET sel == SelectorsOf(pageCall)[idx]
         IN /\ evalLog' = Append(evalLog, LogEntry(1, idx, sel, o, ""))
            /\ IF o = Visible
                 THEN /\ pagePc' = "returned"
                      /\ pageResult' = Bool(TRUE)
                      /\ idx' = idx
                 ELSE IF o = NotVisible
                 THEN /\ pagePc' = "loop"
                      /\ pageResult' = pageResult
                      /\ idx' = idx + 1
                 ELSE /\ pagePc' = ExceptContinue(o)
                      /\ pageResult' = pageResult
                      /\ idx' = idx + 1
    /\ UNCHANGED <<pageCall, city, pass, search_input, pageOps>>
    /\ PageFrame

\* a second loop that goes on from the candidate the first pass found visible
SecondPassResumes(k) == k

\* line 198: the loop of get_error_message starts the list again, whichever
\* candidate k is_error_displayed found visible
SecondPassStart(k) == 1

\* get_error_message: an iteration of the is_error_displayed() call of line 190
\* (pass 1) or of its own loop (pass 2)
ErrorMessageStep ==
    /\ pagePc = "loop"
    /\ pageCall = "get_error_message"
    /\ idx <= Len(error_selectors)
    /\ \E o \in OutcomesOf(pageCall, pass), t \in Texts :
         LET sel == error_selectors[idx]
             txt == IF o = Visible /\ pass = 2 THEN t ELSE ""
         IN /\ evalLog' = Append(evalLog, LogEntry(pass, idx, sel, o, txt))
            /\ IF o = Visible /\ pass = 1
                 THEN \* is_error_displayed returned True: enter the if body
                      /\ pagePc' = "loop"
                      /\ pass' = 2
                      /\ idx' = SecondPassStart(idx)
                      /\ pageResult' = pageResult
                 ELSE IF o = Visible
                 THEN /\ pagePc' = "returned"
                      /\ pageResult' = Str(t)
                      /\ UNCHANGED <<pass, idx>>
                 ELSE IF o = NotVisible
                 THEN /\ pagePc' = "loop"
                      /\ pageResult' = pageResult
                      /\ idx' = idx + 1
                      /\ pass' = pass
                 ELSE /\ pagePc' = ExceptContinue(o)
                      /\ pageResult' = pageResult
                      /\ idx' = idx + 1
                      /\ pass' = pass
    /\ UNCHANGED <<pageCall, city, search_input, pageOps>>
    /\ PageFrame

\* the loop ran out of candidates: "return None" / "return False"
ResolveExhausted ==
    /\ pagePc = "loop"
    /\ pageCall \in Resolvers
    /\ idx > Len(SelectorsOf(pageCall))
    /\ pagePc' = "returned"
    /\ pageResult' = AbsentOf(pageCall)
    /\ UNCHANGED <<pageCall, city, idx, pass, evalLog, search_input, pageOps>>
    /\ PageFrame

-----------------------------------------------------------------------------
(* WeatherPage.search_for_city, weather_page.py:33-66 *)

CallSearch(c) ==
    /\ PageIdle
    /\ pageCall' = "search_for_city"
    /\ pagePc' = "loop"
    /\ city' = c
    /\ idx' = 1
    /\ pass' = 1
    /\ evalLog' = <<>>
    /\ search_input' = 0
    /\ pageOps' = <<>>
    /\ pageResult' = None
    /\ PageFrame

\* value of the local search_input after candidate k was evaluated with outcome o:
\* line 52 assigns the locator before is_visible is awaited
SearchInputAfter(cur, k, o) == IF o = LocatorRaised THEN cur ELSE k

\* one iteration of "for selector in search_selectors" (lines 50-56)
SearchStep ==
    /\ pagePc = "loop"
    /\ pageCall = "search_for_city"
    /\ idx <= Len(search_selectors)
    /\ \E o \in OutcomesOf(pageCall, 1) :
         /\ evalLog' = Append(evalLog, LogEntry(1, idx, search_selectors[idx], o, ""))
         /\ search_input' = SearchInputAfter(search_input, idx, o)
         /\ IF o = Visible
              THEN /\ pagePc' = "after_loop"      \* break
                   /\ idx' = idx
              ELSE IF o = NotVisible
              THEN /\ pagePc' = "loop"
                   /\ idx' = idx + 1
              ELSE /\ pagePc' = ExceptContinue(o)
                   /\ idx' = idx + 1
    /\ UNCHANGED <<pageCall, city, pass, pageOps, pageResult>>
    /\ PageFrame

\* the for loop is over: by break, or because the list is used up
SearchLoopDone ==
    \/ pagePc = "after_loop"
    \/ (pagePc = "loop" /\ idx > Len(search_selectors))

\* raised records whether the call raised
PageOp(name, target, arg, raised) ==
    [op |-> name, target |-> target, arg |-> arg, raised |-> raised]

\* "if search_input:" (line 58): a Locator object is truthy, None is not
UsesInput(si) == si # 0

\* a fallback that wraps navigate_to in try/except and goes on to the wait
AfterNavigateSwallowed(ok) == "wait"

\* lines 62-64, base_page.py 22-29: navigate_to is awaited with no try around
\* it; when page.goto raises the call ends there, otherwise line 66 is next
AfterNavigate(ok) == IF ok THEN "wait" ELSE "raised"

\* a search that returns right after pressing Enter, without line 66
AfterPressNoWait(ok) == IF ok THEN "returned" ELSE "raised"

\* line 60 then line 66: after press("Enter") the wait for network idle is next
AfterPress(ok) == IF ok THEN "wait" ELSE "raised"

\* lines 58-64: fill the input, or navigate to the search URL
SearchSubmit ==
    /\ pageCall = "search_for_city"
    /\ SearchLoopDone
    /\ \E ok \in BOOLEAN :
         IF UsesInput(search_input)
           THEN /\ pageOps' = Append(pageOps, PageOp("fill", search_input, <<city>>, ~ok))
                /\ pagePc' = IF ok THEN "press" ELSE "raised"
           ELSE /\ pageOps' = Append(pageOps, PageOp("goto", 0, search_url(city), ~ok))
                /\ pagePc' = AfterNavigate(ok)
    /\ UNCHANGED <<pageCall, city, idx, pass, evalLog, search_input, pageResult>>
    /\ PageFrame

\* line 60: search_input.press("Enter")
SearchPress ==
    /\ pagePc = "press"
    /\ pageCall = "search_for_city"
    /\ \E ok \in BOOLEAN :
         /\ pageOps' = Append(pageOps, PageOp("press", search_input, <<"Enter">>, ~ok))
         /\ pagePc' = AfterPress(ok)
    /\ UNCHANGED <<pageCall, city, idx, pass, evalLog, search_input, pageResult>>
    /\ PageFrame

\* line 66: wait_for_page_load() = page.wait_for_load_state("networkidle")
SearchWait ==
    /\ pagePc = "wait"
    /\ pageCall = "search_for_city"
    /\ \E ok \in BOOLEAN :
         /\ pageOps' = Append(pageOps, PageOp("wait_for_load_state", 0, <<"networkidle">>, ~ok))
         /\ pagePc' = IF ok THEN "returned" ELSE "raised"
    /\ pageResult' = None
    /\ UNCHANGED <<pageCall, city, idx, pass, evalLog, search_input>>
    /\ PageFrame

PageNext ==
    \/ \E m \in Resolvers : CallResolver(m)
    \/ GetterStep
    \/ PredicateStep
    \/ ErrorMessageStep
    \/ ResolveExhausted
    \/ \E c \in Cities : CallSearch(c)
    \/ SearchStep
    \/ SearchSubmit
    \/ SearchPress
    \/ SearchWait


-----------------------------------------------------------------------------
(* Python values that cross the API wrapper *)

PyStr(t) == [py |-> "str", str |-> t]
PyDict(f) == [py |-> "dict", items |-> f]
PyList(q) == [py |-> "list", elems |-> q]
JSONDecodeError == [py |-> "JSONDecodeError"]

EmptyMap == [k \in {} |-> ""]

\* {**a, **b}: the later mapping wins on a shared key
\* a dict literal in which **kwargs comes first, so that the entries written
\* after it win
DictMergeLeftWins(a, b) ==
    [k \in (DOMAIN a) \cup (DOMAIN b) |-> IF k \in DOMAIN a THEN a[k] ELSE b[k]]

DictMerge(a, b) ==
    [k \in (DOMAIN a) \cup (DOMAIN b) |-> IF k \in DOMAIN b THEN b[k] ELSE a[k]]

\* kwargs.get(key, default)
DictGet(d, key, default) == IF key \in DOMAIN d THEN d[key] ELSE default

-----------------------------------------------------------------------------
(* WeatherAPIClient, weather_api.py *)

openweather_base_url == "https://api.openweathermap.org/data/2.5"
geocoding_url == "http://api.openweathermap.org/geo/1.0/direct"
openweather_api_key == "test_api_key"

\* bound on the number of operations called in one behaviour
MaxCalls == 3

\* arguments the tests pass
ApiCities == {"London", "InvalidCityName123456789"}
ApiCoords == {<<"51.5074", "-0.1278">>}
ApiCityIds == {"2643743"}
ApiLimits == {"5", "1"}
KwargsSet ==
    { EmptyMap,
      [units |-> "imperial"],
      [lang |-> "en"],
      [q |-> "Paris"],
      [appid |-> "other_key", lat |-> "0"],
      [id |-> "5128581", lon |-> "0"] }

Request(u, p) == [url |-> u, params |-> p]
NoRequest == Request(<<>>, EmptyMap)

\* a call of an operation: its name, positional arguments and **kwargs
Call(name, args, kwargs) == [op |-> name, args |-> args, kwargs |-> kwargs]
NoCall == Call("", <<>>, EmptyMap)

\* params and url of get_current_weather (lines 34-46)
CurrentWeatherRequest(c, kwargs) ==
    Request(<<openweather_base_url, "/weather">>,
            DictMerge([q |-> c, appid |-> openweather_api_key,
                       units |-> DictGet(kwargs, "units", "metric")], kwargs))

\* get_weather_by_coordinates (lines 65-78)
CoordinatesRequest(lat, lon, kwargs) ==
    Request(<<openweather_base_url, "/weather">>,
            DictMerge([lat |-> lat, lon |-> lon, appid |-> openweather_api_key,
                       units |-> DictGet(kwargs, "units", "metric")], kwargs))

\* get_weather_by_city_id (lines 96-108)
CityIdRequest(city_id, kwargs) ==
    Request(<<openweather_base_url, "/weather">>,
            DictMerge([id |-> city_id, appid |-> openweather_api_key,
                       units |-> DictGet(kwargs, "units", "metric")], kwargs))

\* a forecast operation that requests the current-weather path
ForecastRequestWeatherPath(c, kwargs) ==
    Request(<<openweather_base_url, "/weather">>,
            DictMerge([q |-> c, appid |-> openweather_api_key,
                       units |-> DictGet(kwargs, "units", "metric")], kwargs))

\* get_5_day_forecast (lines 126-138)
ForecastRequest(c, kwargs) ==
    Request(<<openweather_base_url, "/forecast">>,
            DictMerge([q |-> c, appid |-> openweather_api_key,
                       units |-> DictGet(kwargs, "units", "metric")], kwargs))

\* search_cities (lines 156-167)
SearchCitiesRequest(query, limit) ==
    Request(<<geocoding_url>>,
            [q |-> query, limit |-> limit, appid |-> openweather_api_key])

\* response bodies the service can send, as text
WeatherBody == "{\"coord\":{},\"weather\":[],\"main\":{\"temp\":15},\"wind\":{},\"clouds\":{},\"dt\":1,\"sys\":{},\"id\":2643743,\"name\":\"London\"}"
ForecastBody == "{\"cod\":\"200\",\"message\":0,\"cnt\":40,\"list\":[],\"city\":{}}"
NotFoundBody == "{\"cod\":\"404\",\"message\":\"city not found\"}"
GeoBody == "[{\"name\":\"London\",\"lat\":51.5,\"lon\":-0.12}]"
HtmlBody == "<html>502 Bad Gateway</html>"
Bodies == {WeatherBody, ForecastBody, NotFoundBody, GeoBody, HtmlBody}

Members(keys) == [k \in keys |-> "value"]

\* response.json(): the parsed body, or the decode error it raises
ParseJson(body) ==
    CASE body = WeatherBody ->
           PyDict(Members({"coord", "weather", "main", "wind", "clouds", "dt", "sys", "id", "name"}))
      [] body = ForecastBody ->
           PyDict(Members({"cod", "message", "cnt", "list", "city"}))
      [] body = NotFoundBody -> PyDict(Members({"cod", "message"}))
      [] body = GeoBody -> PyList(<<PyDict(Members({"name", "lat", "lon"}))>>)
      [] OTHER -> JSONDecodeError

Statuses == {200, 299, 300, 404, 500}
HeaderSets == {[content_type |-> "application/json"], [content_type |-> "text/html", server |-> "openresty"]}

Response(n, st, h, b) == [serial |-> n, status |-> st, headers |-> h, body |-> b]
NoResponse == Response(0, 0, EmptyMap, "")

\* a success test that knows only status 200
OkOnly200(st) == st = 200

\* response.ok of the HTTP library: the status is in 200..299
ResponseOk(st) == st >= 200 /\ st <= 299

\* a wrapper that parses the body as JSON whatever the status
EnvelopeDataAlwaysJson(resp) == ParseJson(resp.body)

\* a wrapper that hands back the raw text when a 2xx body does not parse
EnvelopeDataTextFallback(resp) ==
    IF ResponseOk(resp.status) /\ ParseJson(resp.body) # JSONDecodeError
      THEN ParseJson(resp.body)
      ELSE PyStr(resp.body)

\* "data": await response.json() if response.ok else await response.text()
EnvelopeData(resp) ==
    IF ResponseOk(resp.status) THEN ParseJson(resp.body) ELSE PyStr(resp.body)

\* the returned dict literal (lines 48-52)
Envelope(resp) ==
    [status |-> resp.status, headers |-> resp.headers, data |-> EnvelopeData(resp)]

NoEnvelope == [status |-> 0]

\* what request_context.get raises when the request fails in transport
TransportError == [py |-> "playwright.Error"]
NoApiException == [py |-> ""]

\* a wrapper that sends every request a second time
IssueGetTwice(n) == n + 2

\* request_context.get(...) hands one GET to the HTTP library
IssueGet(n) == n + 1

ApiInit ==
    /\ apiPc = "idle"
    /\ callCount = 0
    /\ requestsIssued = 0
    /\ lastRequest = NoRequest
    /\ lastCall = NoCall
    /\ apiExc = NoApiException
    /\ repeated = FALSE
    /\ apiResponse = NoResponse
    /\ envelope = NoEnvelope

ApiIdle == apiPc \in {"idle", "returned", "raised"}

\* the part of every operation up to "await self.request_context.get(...)"
SendRequest(req) ==
    /\ ApiIdle
    /\ callCount < MaxCalls
    /\ callCount' = callCount + 1
    /\ requestsIssued' = IssueGet(requestsIssued)
    /\ lastRequest' = req
    /\ repeated' = (req = lastRequest)
    /\ apiPc' = "awaiting"
    /\ apiExc' = NoApiException
    /\ apiResponse' = NoResponse
    /\ envelope' = NoEnvelope
    /\ ApiFrame

get_current_weather ==
    \E c \in ApiCities, kw \in KwargsSet :
        /\ SendRequest(CurrentWeatherRequest(c, kw))
        /\ lastCall' = Call("get_current_weather", <<c>>, kw)

get_weather_by_coordinates ==
    \E ll \in ApiCoords, kw \in KwargsSet :
        /\ SendRequest(CoordinatesRequest(ll[1], ll[2], kw))
        /\ lastCall' = Call("get_weather_by_coordinates", ll, kw)

get_weather_by_city_id ==
    \E i \in ApiCityIds, kw \in KwargsSet :
        /\ SendRequest(CityIdRequest(i, kw))
        /\ lastCall' = Call("get_weather_by_city_id", <<i>>, kw)

get_5_day_forecast ==
    \E c \in ApiCities, kw \in KwargsSet :
        /\ SendRequest(ForecastRequest(c, kw))
        /\ lastCall' = Call("get_5_day_forecast", <<c>>, kw)

\* limit has the default 5 when the caller gives none
search_cities ==
    \E c \in ApiCities, l \in ApiLimits :
        /\ SendRequest(SearchCitiesRequest(c, l))
        /\ lastCall' = Call("search_cities", <<c, l>>, EmptyMap)

\* the GET is answered: the operation builds and returns the envelope, or
\* response.json() raises on a body that is not JSON
ReceiveResponse ==
    /\ apiPc = "awaiting"
    /\ \E st \in Statuses, h \in HeaderSets, b \in Bodies :
         LET resp == Response(requestsIssued, st, h, b)
         IN /\ apiResponse' = resp
            /\ IF EnvelopeData(resp) = JSONDecodeError
                 THEN /\ apiPc' = "raised"
                      /\ apiExc' = JSONDecodeError
                      /\ envelope' = envelope
                 ELSE /\ apiPc' = "returned"
                      /\ apiExc' = apiExc
                      /\ envelope' = Envelope(resp)
    /\ UNCHANGED <<callCount, requestsIssued, lastRequest, lastCall, repeated>>
    /\ ApiFrame

\* an operation that catches the transport error and returns an envelope with
\* status 0 and empty data
NetworkErrorSwallowed ==
    /\ apiPc = "awaiting"
    /\ apiPc' = "returned"
    /\ envelope' = [status |-> 0, headers |-> EmptyMap, data |-> PyStr("")]
    /\ UNCHANGED <<callCount, requestsIssued, lastRequest, lastCall, apiExc, repeated,
                   apiResponse>>
    /\ ApiFrame

\* the GET fails in transport: the await of lines 43-46 raises, and nothing
\* in the operation catches it
NetworkError ==
    /\ apiPc = "awaiting"
    /\ apiPc' = "raised"
    /\ apiExc' = TransportError
    /\ UNCHANGED <<callCount, requestsIssued, lastRequest, lastCall, repeated,
                   apiResponse, envelope>>
    /\ ApiFrame

ApiNext ==
    \/ get_current_weather
    \/ get_weather_by_coordinates
    \/ get_weather_by_city_id
    \/ get_5_day_forecast
    \/ search_cities
    \/ ReceiveResponse
    \/ NetworkError

-----------------------------------------------------------------------------
(* The shape validators, weather_api.py:175-205 *)

weather_required_fields == <<"coord", "weather", "main", "wind", "clouds", "dt", "sys", "id", "name">>
forecast_required_fields == <<"cod", "message", "cnt", "list", "city">>

\* isinstance(response_data, dict)
IsDict(x) == x.py = "dict"

\* a validator that stops checking after four fields
AllButLastFieldIn(fields, d) ==
    \A i \in 1..(IF Len(fields) > 4 THEN 4 ELSE Len(fields)) : fields[i] \in DOMAIN d.items

\* all(field in response_data for field in required_fields)
RECURSIVE AllFieldsIn(_, _)
AllFieldsIn(fields, d) ==
    IF fields = <<>> THEN TRUE
    ELSE IF Head(fields) \in DOMAIN d.items THEN AllFieldsIn(Tail(fields), d)
    ELSE FALSE

validate_weather_response(x) ==
    IF ~IsDict(x) THEN FALSE ELSE AllFieldsIn(weather_required_fields, x)

validate_forecast_response(x) ==
    IF ~IsDict(x) THEN FALSE ELSE AllFieldsIn(forecast_required_fields, x)

\* keys a response_data mapping may carry
ValidatorKeys ==
    {"coord", "weather", "main", "wind", "clouds", "dt", "sys", "id", "name",
     "cod", "message", "cnt", "list", "city", "base"}

ValidatorInputs ==
    {PyDict(Members(S)) : S \in SUBSET ValidatorKeys}
        \cup {PyStr(b) : b \in Bodies}
        \cup {PyList(<<>>), PyList(<<PyDict(Members({"name", "lat", "lon"}))>>)}

ValInit ==
    /\ valInput = PyStr("")
    /\ valDone = "none"
    /\ valResult = FALSE

ValInputInit ==
    /\ valInput \in ValidatorInputs
    /\ valDone = "none"
    /\ valResult = FALSE

ValidateWeather ==
    /\ valDone = "none"
    /\ valDone' = "validate_weather_response"
    /\ valResult' = validate_weather_response(valInput)
    /\ UNCHANGED valInput
    /\ ValFrame

ValidateForecast ==
    /\ valDone = "none"
    /\ valDone' = "validate_forecast_response"
    /\ valResult' = validate_forecast_response(valInput)
    /\ UNCHANGED valInput
    /\ ValFrame

ValNext == ValidateWeather \/ ValidateForecast

-----------------------------------------------------------------------------
(* get_settings, settings.py:59-68, and Settings.openweather_api_key (line 17) *)

EnvKeys == {"unset", "empty", "set"}

\* Settings(): the required field openweather_api_key has no default, so the
\* construction raises when the environment does not provide it
SettingsConstructs(env) == env # "unset"

\* settings.openweather_api_key of a constructed record
ApiKeyOf(env) == IF env = "set" THEN openweather_api_key ELSE ""

\* get_settings() that builds a new record on every call
get_settings_fresh(cur, n, env) ==
    IF SettingsConstructs(env)
      THEN [raised |-> FALSE, settings |-> n + 1, constructed |-> n + 1]
      ELSE [raised |-> TRUE, settings |-> cur, constructed |-> n]

\* get_settings(): cur is _settings, n the number of records built so far;
\* the result carries the new _settings and whether the call raised
get_settings(cur, n, env) ==
    IF cur = 0
      THEN IF SettingsConstructs(env)
             THEN [raised |-> FALSE, settings |-> n + 1, constructed |-> n + 1]
             ELSE [raised |-> TRUE, settings |-> cur, constructed |-> n]
      ELSE [raised |-> FALSE, settings |-> cur, constructed |-> n]

\* the effect of one get_settings() call on the module state
CallGetSettings(r) ==
    /\ _settings' = r.settings
    /\ constructed' = r.constructed
    /\ returned' = IF r.raised THEN returned ELSE returned \cup {r.settings}
    /\ settingsCalls' = settingsCalls + 1
    /\ UNCHANGED envKey

SettingsInit ==
    /\ envKey = "set"
    /\ _settings = 0
    /\ constructed = 0
    /\ returned = {}
    /\ settingsCalls = 0

SettingsEnvInit ==
    /\ envKey \in EnvKeys
    /\ _settings = 0
    /\ constructed = 0
    /\ returned = {}
    /\ settingsCalls = 0

-----------------------------------------------------------------------------
(* The fixture graph of conftest.py, run by pytest one test after another *)

\* bound on the number of tests in the session
MaxTests == 2

\* the kinds of test function in tests/: what each requests and does
TestKinds == {"api_working", "api", "ui", "e2e"}
UsesWeatherApi(k) == k \in {"api", "e2e"}
UsesWeatherPage(k) == k \in {"ui", "e2e"}
HasSkipCheck(k) == k = "api_working"
NeedsApiKey(k) == k \in {"api_working", "api", "e2e"}

\* setup steps of one test, in pytest's order: the autouse handle_test_failure
\* with its dependencies first, then the fixtures the test function names
SetupPlan(k) ==
    <<"browser", "settings", "context.new_context", "context.tracing_start", "page",
      "handle_test_failure">>
      \o (IF UsesWeatherPage(k) THEN <<"weather_page">> ELSE <<>>)
      \o (IF UsesWeatherApi(k) THEN <<"api_context", "weather_api">> ELSE <<>>)

NewTest(k) ==
    [kind |-> k, context |-> "none", tracing |-> "off", page |-> "none",
     api_context |-> "none", rep_call |-> "none", outcome |-> "pending",
     error_at |-> "", teardown_error |-> FALSE, screenshot |-> "none", done |-> FALSE]

Cur == tests[Len(tests)]
SetCur(f, v) == [tests EXCEPT ![Len(tests)] = [@ EXCEPT ![f] = v]]
SetCur2(f, v, g, w) == [tests EXCEPT ![Len(tests)] = [@ EXCEPT ![f] = v, ![g] = w]]

SessInit ==
    /\ sessPc = "between"
    /\ todo = <<>>
    /\ stack = <<>>
    /\ tests = <<>>
    /\ browser = "none"
    /\ launchCount = 0
    /\ settingsFixture = "unset"
    /\ files = EmptyMap

\* pytest picks the next test item
StartTest ==
    /\ sessPc = "between"
    /\ Len(tests) < MaxTests
    /\ \E k \in TestKinds :
         /\ tests' = Append(tests, NewTest(k))
         /\ todo' = SetupPlan(k)
    /\ sessPc' = "setup"
    /\ stack' = <<>>
    /\ UNCHANGED <<browser, launchCount, settingsFixture, settingsVars>>
    /\ UNCHANGED files
    /\ SessFrame

InSetup(step) == sessPc = "setup" /\ todo # <<>> /\ Head(todo) = step

\* a setup step succeeded: go on with the plan, or run the test body
SetupOk(pushed) ==
    /\ todo' = Tail(todo)
    /\ stack' = IF pushed = "" THEN stack ELSE Append(stack, pushed)
    /\ sessPc' = IF Tail(todo) = <<>> THEN "call" ELSE "setup"

\* a setup step raised: the test is reported as error, the body is not run and
\* the fixtures that had reached their yield are torn down
SetupRaised(ts) ==
    /\ todo' = <<>>
    /\ stack' = stack
    /\ sessPc' = "teardown"
    /\ tests' = [ts EXCEPT ![Len(ts)] = [@ EXCEPT !.outcome = "error", !.error_at = Head(todo)]]

\* a browser fixture declared without scope="session": every test launches its
\* own browser
BrowserSetupPerTest ==
    /\ InSetup("browser")
    /\ \E ok \in BOOLEAN :
         IF ok THEN /\ browser' = "open"
                    /\ launchCount' = launchCount + 1
                    /\ SetupOk("")
                    /\ UNCHANGED tests
               ELSE /\ browser' = "launch_failed"
                    /\ launchCount' = launchCount
                    /\ SetupRaised(tests)
    /\ UNCHANGED <<settingsFixture, settingsVars>>
    /\ UNCHANGED files
    /\ SessFrame

\* browser fixture (session scope), conftest.py:62-93: launched on first use,
\* the instance or the launch error is cached for the session
BrowserSetup ==
    /\ InSetup("browser")
    /\ \/ /\ browser = "none"
          /\ \E ok \in BOOLEAN :
               IF ok THEN /\ browser' = "open"
                          /\ launchCount' = launchCount + 1
                          /\ SetupOk("")
                          /\ UNCHANGED tests
                     ELSE /\ browser' = "launch_failed"
                          /\ launchCount' = launchCount
                          /\ SetupRaised(tests)
       \/ /\ browser = "open"
          /\ SetupOk("")
          /\ UNCHANGED <<browser, launchCount, tests>>
       \/ /\ browser = "launch_failed"
          /\ SetupRaised(tests)
          /\ UNCHANGED <<browser, launchCount>>
    /\ UNCHANGED <<settingsFixture, settingsVars>>
    /\ UNCHANGED files
    /\ SessFrame

\* settings fixture (session scope), conftest.py:49-52
SettingsSetup ==
    /\ InSetup("settings")
    /\ \/ /\ settingsFixture = "unset"
          /\ LET r == get_settings(_settings, constructed, envKey)
             IN /\ CallGetSettings(r)
                /\ IF r.raised
                     THEN /\ settingsFixture' = "raised"
                          /\ SetupRaised(tests)
                     ELSE /\ settingsFixture' = "ok"
                          /\ SetupOk("")
                          /\ UNCHANGED tests
       \/ /\ settingsFixture = "ok"
          /\ SetupOk("")
          /\ UNCHANGED <<settingsFixture, tests, settingsVars>>
       \/ /\ settingsFixture = "raised"
          /\ SetupRaised(tests)
          /\ UNCHANGED <<settingsFixture, settingsVars>>
    /\ UNCHANGED <<browser, launchCount>>
    /\ UNCHANGED files
    /\ SessFrame

\* context fixture, line 110: browser.new_context(**context_options)
ContextNew ==
    /\ InSetup("context.new_context")
    /\ \E ok \in BOOLEAN :
         IF ok THEN /\ tests' = SetCur("context", "open")
                    /\ SetupOk("")
               ELSE SetupRaised(tests)
    /\ UNCHANGED <<browser, launchCount, settingsFixture, settingsVars>>
    /\ UNCHANGED files
    /\ SessFrame

\* context fixture, lines 113-119: tracing.start(...) and the yield
ContextTracingStart ==
    /\ InSetup("context.tracing_start")
    /\ \E ok \in BOOLEAN :
         IF ok THEN /\ tests' = SetCur("tracing", "on")
                    /\ SetupOk("context")
               ELSE SetupRaised(tests)
    /\ UNCHANGED <<browser, launchCount, settingsFixture, settingsVars>>
    /\ UNCHANGED files
    /\ SessFrame

\* page fixture, lines 129-139
PageSetup ==
    /\ InSetup("page")
    /\ \E ok \in BOOLEAN :
         IF ok THEN /\ tests' = SetCur("page", "open")
                    /\ SetupOk("page")
               ELSE SetupRaised(tests)
    /\ UNCHANGED <<browser, launchCount, settingsFixture, settingsVars>>
    /\ UNCHANGED files
    /\ SessFrame

\* handle_test_failure, line 236: nothing before the yield
HandleTestFailureSetup ==
    /\ InSetup("handle_test_failure")
    /\ SetupOk("handle_test_failure")
    /\ UNCHANGED <<tests, browser, launchCount, settingsFixture, settingsVars>>
    /\ UNCHANGED files
    /\ SessFrame

\* weather_page fixture, line 161: WeatherPage(page) -> BasePage.__init__ calls get_settings()
WeatherPageSetup ==
    /\ InSetup("weather_page")
    /\ LET r == get_settings(_settings, constructed, envKey)
       IN /\ CallGetSettings(r)
          /\ IF r.raised THEN SetupRaised(tests)
                         ELSE SetupOk("") /\ UNCHANGED tests
    /\ UNCHANGED <<browser, launchCount, settingsFixture>>
    /\ UNCHANGED files
    /\ SessFrame

\* api_context fixture, lines 146-153
ApiContextSetup ==
    /\ InSetup("api_context")
    /\ \E ok \in BOOLEAN :
         IF ok THEN /\ tests' = SetCur("api_context", "open")
                    /\ SetupOk("api_context")
               ELSE SetupRaised(tests)
    /\ UNCHANGED <<browser, launchCount, settingsFixture, settingsVars>>
    /\ UNCHANGED files
    /\ SessFrame

\* a WeatherAPIClient.__init__ that builds a Settings() of its own and binds
\* the module-level name to it
WeatherApiSetupOwnSettings ==
    /\ InSetup("weather_api")
    /\ LET r == get_settings(0, constructed, envKey)
       IN /\ CallGetSettings(r)
          /\ IF r.raised THEN SetupRaised(tests)
                         ELSE SetupOk("") /\ UNCHANGED tests
    /\ UNCHANGED <<browser, launchCount, settingsFixture>>
    /\ UNCHANGED files
    /\ SessFrame

\* weather_api fixture, line 168: WeatherAPIClient.__init__ calls get_settings()
WeatherApiSetup ==
    /\ InSetup("weather_api")
    /\ LET r == get_settings(_settings, constructed, envKey)
       IN /\ CallGetSettings(r)
          /\ IF r.raised THEN SetupRaised(tests)
                         ELSE SetupOk("") /\ UNCHANGED tests
    /\ UNCHANGED <<browser, launchCount, settingsFixture>>
    /\ UNCHANGED files
    /\ SessFrame

\* the body of a test of tests/api/test_weather_api_working.py:
\* get_settings(), then "if not settings.openweather_api_key: pytest.skip(...)"
RunWorkingApiTest ==
    /\ sessPc = "call"
    /\ HasSkipCheck(Cur.kind)
    /\ LET r == get_settings(_settings, constructed, envKey)
       IN /\ CallGetSettings(r)
          /\ \E res \in {"passed", "failed"} :
               LET o == IF r.raised THEN "failed"
                        ELSE IF ApiKeyOf(envKey) = "" THEN "skipped"
                        ELSE res
               IN tests' = SetCur2("rep_call", o, "outcome", o)
    /\ sessPc' = "teardown"
    /\ UNCHANGED <<todo, stack, browser, launchCount, settingsFixture>>
    /\ UNCHANGED files
    /\ SessFrame

\* the body of any other test: its assertions pass or fail
RunTest ==
    /\ sessPc = "call"
    /\ ~HasSkipCheck(Cur.kind)
    /\ \E res \in {"passed", "failed"} :
         tests' = SetCur2("rep_call", res, "outcome", res)
    /\ sessPc' = "teardown"
    /\ UNCHANGED <<todo, stack, browser, launchCount, settingsFixture, settingsVars>>
    /\ UNCHANGED files
    /\ SessFrame

InTeardown(fx) == sessPc = "teardown" /\ stack # <<>> /\ stack[Len(stack)] = fx
Pop == stack' = SubSeq(stack, 1, Len(stack) - 1)

\* api_context fixture, line 154
ApiContextTeardown ==
    /\ InTeardown("api_context")
    /\ tests' = SetCur("api_context", "disposed")
    /\ Pop
    /\ UNCHANGED <<sessPc, todo, browser, launchCount, settingsFixture, settingsVars>>
    /\ UNCHANGED files
    /\ SessFrame

\* a handle_test_failure that only tests hasattr(request.node, "rep_call") and
\* so takes the screenshot after every test whose body ran
HandleTestFailureTeardownAnyReport ==
    /\ InTeardown("handle_test_failure")
    /\ IF Cur.rep_call # "none"
         THEN \E ok \in BOOLEAN :
                IF ok THEN tests' = SetCur("screenshot", "taken")
                      ELSE tests' = SetCur2("screenshot", "raised",
                                            "teardown_error", TRUE)
         ELSE UNCHANGED tests
    /\ Pop
    /\ UNCHANGED <<sessPc, todo, browser, launchCount, settingsFixture, settingsVars>>
    /\ UNCHANGED files
    /\ SessFrame

\* handle_test_failure, lines 238-242: screenshot when the call report failed
HandleTestFailureTeardown ==
    /\ InTeardown("handle_test_failure")
    /\ IF Cur.rep_call = "failed"
         THEN \E ok \in BOOLEAN :
                IF ok THEN tests' = SetCur("screenshot", "taken")
                      ELSE tests' = SetCur2("screenshot", "raised",
                                            "teardown_error", TRUE)
         ELSE UNCHANGED tests
    /\ Pop
    /\ UNCHANGED <<sessPc, todo, browser, launchCount, settingsFixture, settingsVars>>
    /\ UNCHANGED files
    /\ SessFrame

\* a page fixture whose code after the yield does not close the page
PageTeardownNoClose ==
    /\ InTeardown("page")
    /\ UNCHANGED tests
    /\ Pop
    /\ UNCHANGED <<sessPc, todo, browser, launchCount, settingsFixture, settingsVars>>
    /\ UNCHANGED files
    /\ SessFrame

\* page fixture, line 140
PageTeardown ==
    /\ InTeardown("page")
    /\ tests' = SetCur("page", "closed")
    /\ Pop
    /\ UNCHANGED <<sessPc, todo, browser, launchCount, settingsFixture, settingsVars>>
    /\ UNCHANGED files
    /\ SessFrame

\* writing a file creates it or replaces what the path held
WriteFile(fs, path, content) ==
    [q \in (DOMAIN fs) \cup {path} |-> IF q = path THEN content ELSE fs[q]]

\* a trace archive named after the test
trace_path_per_test(t) == <<"test-results/trace.zip", t>>

\* line 122: the literal path handed to tracing.stop, the same for every test t
trace_path(t) == <<"test-results/trace.zip">>

\* a context fixture that saves the trace only for a test whose call failed and
\* otherwise goes straight to context.close()
ContextTracingStopOnFailureOnly ==
    /\ InTeardown("context")
    /\ IF Cur.rep_call = "failed"
         THEN \E ok \in BOOLEAN :
                IF ok THEN /\ tests' = SetCur("tracing", "stopped")
                           /\ files' = WriteFile(files, trace_path(Len(tests)), Len(tests))
                           /\ stack' = [stack EXCEPT ![Len(stack)] = "context.close"]
                      ELSE /\ tests' = SetCur2("tracing", "stop_raised",
                                               "teardown_error", TRUE)
                           /\ UNCHANGED files
                           /\ Pop
         ELSE /\ UNCHANGED <<tests, files>>
              /\ stack' = [stack EXCEPT ![Len(stack)] = "context.close"]
    /\ UNCHANGED <<sessPc, todo, browser, launchCount, settingsFixture, settingsVars>>
    /\ SessFrame

\* context fixture, line 122: tracing.stop(path=...); when it raises, line 123
\* is not reached
ContextTracingStop ==
    /\ InTeardown("context")
    /\ \E ok \in BOOLEAN :
         IF ok THEN /\ tests' = SetCur("tracing", "stopped")
                    /\ files' = WriteFile(files, trace_path(Len(tests)), Len(tests))
                    /\ stack' = [stack EXCEPT ![Len(stack)] = "context.close"]
               ELSE /\ tests' = SetCur2("tracing", "stop_raised",
                                        "teardown_error", TRUE)
                    /\ UNCHANGED files
                    /\ Pop
    /\ UNCHANGED <<sessPc, todo, browser, launchCount, settingsFixture, settingsVars>>
    /\ SessFrame

\* context fixture, line 123
ContextClose ==
    /\ InTeardown("context.close")
    /\ tests' = SetCur("context", "closed")
    /\ Pop
    /\ UNCHANGED <<sessPc, todo, browser, launchCount, settingsFixture, settingsVars>>
    /\ UNCHANGED files
    /\ SessFrame

\* every finalizer of the test has run: its function scope is left
FinishTest ==
    /\ sessPc = "teardown"
    /\ stack = <<>>
    /\ tests' = SetCur("done", TRUE)
    /\ sessPc' = "between"
    /\ UNCHANGED <<todo, stack, browser, launchCount, settingsFixture, settingsVars>>
    /\ UNCHANGED files
    /\ SessFrame

ClosedWithBrowser(st) == IF st = "open" THEN "closed_by_browser" ELSE st

\* end of the session: browser fixture, line 94; closing the browser takes
\* down whatever contexts and pages it still has
BrowserTeardown ==
    /\ sessPc = "between"
    /\ tests # <<>>
    /\ sessPc' = "finished"
    /\ browser' = IF browser = "open" THEN "closed" ELSE browser
    /\ tests' = IF browser = "open"
                  THEN [t \in 1..Len(tests) |->
                          [tests[t] EXCEPT !.context = ClosedWithBrowser(@),
                                           !.page = ClosedWithBrowser(@)]]
                  ELSE tests
    /\ UNCHANGED <<todo, stack, launchCount, settingsFixture, settingsVars>>
    /\ UNCHANGED files
    /\ SessFrame

SessNext ==
    \/ StartTest
    \/ BrowserSetup
    \/ SettingsSetup
    \/ ContextNew
    \/ ContextTracingStart
    \/ PageSetup
    \/ HandleTestFailureSetup
    \/ WeatherPageSetup
    \/ ApiContextSetup
    \/ WeatherApiSetup
    \/ RunWorkingApiTest
    \/ RunTest
    \/ ApiContextTeardown
    \/ HandleTestFailureTeardown
    \/ PageTeardown
    \/ ContextTracingStop
    \/ ContextClose
    \/ FinishTest
    \/ BrowserTeardown

-----------------------------------------------------------------------------
(* Specifications *)

-----------------------------------------------------------------------------
(* wait_for_condition, helpers.py:66-93.  Time is counted in ticks; the clock
   advances while the coroutine sleeps. *)

MaxTime == 6        \* the clock is followed up to this time
MaxLag == 1         \* asyncio.sleep may return this much later than asked

Timeouts == {-1, 0, 1, 2}
Intervals == {0, 1, 2}
ErrorMessages == {"Condition was not met within timeout", "page not ready"}

TimeoutError(msg) == [exc |-> "TimeoutError", message |-> msg]
NoException == [exc |-> "", message |-> ""]

WaitInit ==
    /\ waitPc = "idle"
    /\ clock = 0
    /\ start_time = 0
    /\ timeout = 0
    /\ interval = 1
    /\ error_message = ""
    /\ wake_at = 0
    /\ condition = FALSE
    /\ firstTrue = {}
    /\ conditionCalls = 0
    /\ waitExc = NoException

WaitIdle == waitPc \in {"idle", "returned", "raised"}
WaitActive == waitPc \in {"check", "deadline", "sleep"}

\* the longest a call can last: its last sleep starts before the timeout has
\* elapsed and ends at most MaxLag late
LongestWait(t, i) == IF t <= 0 THEN 0 ELSE (t - 1) + i + MaxLag

\* the call and line 83; the condition is whatever it is at that moment.  Only
\* calls that end within the time the clock is followed are started.
CallWaitForCondition(t, i, msg) ==
    /\ WaitIdle
    /\ clock + LongestWait(t, i) <= MaxTime
    /\ timeout' = t
    /\ interval' = i
    /\ error_message' = msg
    /\ start_time' = clock
    /\ wake_at' = clock
    /\ \E c \in BOOLEAN :
         /\ condition' = c
         /\ firstTrue' = IF c THEN {clock} ELSE {}
    /\ conditionCalls' = 0
    /\ waitExc' = NoException
    /\ waitPc' = "check"
    /\ UNCHANGED clock
    /\ WaitFrame

\* lines 86-87: if condition(): return
WaitCheck ==
    /\ waitPc = "check"
    /\ conditionCalls' = conditionCalls + 1
    /\ waitPc' = IF condition THEN "returned" ELSE "deadline"
    /\ UNCHANGED <<clock, start_time, timeout, interval, error_message, wake_at,
                   condition, firstTrue, waitExc>>
    /\ WaitFrame

\* a deadline test that never fires
TimedOutNever(current_time, start, t) == FALSE

\* line 90: current_time - start_time >= timeout
TimedOut(current_time, start, t) == current_time - start >= t

\* lines 89-93: read the clock, raise TimeoutError(error_message) when the
\* timeout has elapsed, otherwise start asyncio.sleep(interval)
WaitDeadline ==
    /\ waitPc = "deadline"
    /\ IF TimedOut(clock, start_time, timeout)
         THEN /\ waitPc' = "raised"
              /\ waitExc' = TimeoutError(error_message)
              /\ UNCHANGED wake_at
         ELSE /\ waitPc' = "sleep"
              /\ wake_at' = clock + interval
              /\ UNCHANGED waitExc
    /\ UNCHANGED <<clock, start_time, timeout, interval, error_message,
                   condition, firstTrue, conditionCalls>>
    /\ WaitFrame

\* time passes while the coroutine sleeps
Tick ==
    /\ waitPc = "sleep"
    /\ clock < MaxTime
    /\ clock < wake_at + MaxLag
    /\ clock' = clock + 1
    /\ UNCHANGED <<waitPc, start_time, timeout, interval, error_message, wake_at,
                   condition, firstTrue, conditionCalls, waitExc>>
    /\ WaitFrame

\* asyncio.sleep(interval) returns, not before the interval has passed and,
\* the coroutine having been suspended, not at the very time it started: the
\* loop goes back to line 86
WaitWake ==
    /\ waitPc = "sleep"
    /\ clock >= wake_at
    /\ clock > wake_at - interval
    /\ waitPc' = "check"
    /\ UNCHANGED <<clock, start_time, timeout, interval, error_message, wake_at,
                   condition, firstTrue, conditionCalls, waitExc>>
    /\ WaitFrame

\* the world changes what condition() answers
ConditionChanges ==
    /\ WaitActive
    /\ condition' = ~condition
    /\ firstTrue' = IF ~condition /\ firstTrue = {} THEN {clock} ELSE firstTrue
    /\ UNCHANGED <<waitPc, clock, start_time, timeout, interval, error_message,
                   wake_at, conditionCalls, waitExc>>
    /\ WaitFrame

WaitNext ==
    \/ \E t \in Timeouts, i \in Intervals, msg \in ErrorMessages :
          CallWaitForCondition(t, i, msg)
    \/ WaitCheck
    \/ WaitDeadline
    \/ Tick
    \/ WaitWake
    \/ ConditionChanges

-----------------------------------------------------------------------------

(* get_logger, logger.py:9-39 *)

MaxLoggerCalls == 4

\* __name__ of logger.py
logger_module_name == "src.utils.logger"

\* the name arguments: "" stands for a missing or empty name; the others are
\* what conftest.py:14, BasePage and WeatherAPIClient pass
NameArgs == {"", "conftest", "WeatherPage", "WeatherAPIClient", logger_module_name}

\* line 18: name or __name__
LoggerNameOf(name) == IF name = "" THEN logger_module_name ELSE name

LoggerNames == {LoggerNameOf(a) : a \in NameArgs}

\* a logger as logging.getLogger creates it
NewLogger == [handlers |-> <<>>, level |-> "NOTSET"]
ColorHandler(n) == [kind |-> "colorlog.StreamHandler", stream |-> "stdout", serial |-> n]

\* a get_logger that configures the logger on every call
ConfiguresAlways(lg) == TRUE

\* line 21: if not logger.handlers
Configures(lg) == lg.handlers = <<>>

LogInit ==
    /\ loggers = [n \in LoggerNames |-> NewLogger]
    /\ loggerCalls = 0
    /\ calledNames = {}
    /\ handlersMade = 0
    /\ lastLogger = ""
    /\ emitted = 0

\* one call of get_logger(name)
CallGetLogger(name) ==
    /\ loggerCalls < MaxLoggerCalls
    /\ LET n == LoggerNameOf(name)
           lg == loggers[n]
       IN /\ IF Configures(lg)
               THEN /\ loggers' = [loggers EXCEPT ![n] =
                                     [handlers |-> Append(lg.handlers, ColorHandler(handlersMade + 1)),
                                      level |-> "INFO"]]
                    /\ handlersMade' = handlersMade + 1
               ELSE UNCHANGED <<loggers, handlersMade>>
          /\ calledNames' = calledNames \cup {n}
          /\ lastLogger' = n
    /\ loggerCalls' = loggerCalls + 1
    /\ UNCHANGED emitted
    /\ LogFrame

\* the holder of the returned logger logs one record at level INFO: every
\* handler of that logger emits it
LogRecord ==
    /\ lastLogger # ""
    /\ emitted' = Len(loggers[lastLogger].handlers)
    /\ UNCHANGED <<loggers, loggerCalls, calledNames, handlersMade, lastLogger>>
    /\ LogFrame

LogNext ==
    \/ \E name \in NameArgs : CallGetLogger(name)
    \/ LogRecord

-----------------------------------------------------------------------------

Init == PageInit /\ ApiInit /\ ValInit /\ SettingsInit /\ SessInit /\ WaitInit /\ LogInit

SpecLogger == Init /\ [][LogNext]_vars

SpecWait == Init /\ [][WaitNext]_vars

\* the event loop runs the coroutine whenever it can run, and the clock
\* advances while the coroutine sleeps
WaitFairness ==
    /\ WF_vars(WaitCheck)
    /\ WF_vars(WaitDeadline)
    /\ WF_vars(Tick)
    /\ WF_vars(WaitWake)

SpecWaitFair == SpecWait /\ WaitFairness

SpecPage == Init /\ [][PageNext]_vars

SpecApi == Init /\ [][ApiNext]_vars

ValidatorsInit ==
    PageInit /\ ApiInit /\ ValInputInit /\ SettingsInit /\ SessInit /\ WaitInit /\ LogInit

SpecValidators ==
    ValidatorsInit /\ [][ValNext]_vars

SessionInit ==
    PageInit /\ ApiInit /\ ValInit /\ SettingsEnvInit /\ SessInit /\ WaitInit /\ LogInit

SpecSession ==
    SessionInit /\ [][SessNext]_vars

-----------------------------------------------------------------------------
(* Properties of the selector-fallback loops *)

LastEval == evalLog[Len(evalLog)]

\* the candidates are evaluated in list order, one log entry per loop iteration
InListOrder == \A i \in 1..Len(evalLog) : evalLog[i].pass = 1 => evalLog[i].index = i

\* C1 (as stated): in a text getter, as soon as the visibility check of a
\* candidate answered True the call has returned that candidate's text and no
\* later candidate is evaluated.
C1_FirstVisibleReturned ==
    pageCall \in TextGetters =>
        \A i \in 1..Len(evalLog) :
            WasVisible(evalLog[i]) =>
                /\ i = Len(evalLog)
                /\ pagePc = "returned"
                /\ pageResult = Str(evalLog[i].text)

\* C1 (amended): in a text getter the candidates are evaluated in list order;
\* the call returns the text of the first candidate whose visibility check
\* answered True AND whose text_content() read succeeded, and evaluates no
\* candidate after that one; a visible candidate whose text read raises is
\* skipped like a non-matching one.
C1_ShortCircuit ==
    pageCall \in TextGetters =>
        /\ InListOrder
        /\ \A i \in 1..Len(evalLog) :
             evalLog[i].outcome = Visible =>
                /\ i = Len(evalLog)
                /\ pagePc = "returned"
                /\ pageResult = Str(evalLog[i].text)
        /\ \A i \in 1..Len(evalLog) :
             (evalLog[i].outcome = TextRaised /\ i < Len(evalLog)) =>
                evalLog[i + 1].index = i + 1
        /\ (pagePc = "returned" /\ pageResult # None) =>
                (Len(evalLog) > 0 /\ LastEval.outcome = Visible)

\* a getter returned the text of its third candidate after two failed ones,
\* one of them visible with a failing text read
C1_Witness ==
    /\ pageCall = "get_city_name"
    /\ pagePc = "returned"
    /\ Len(evalLog) = 3
    /\ evalLog[1].outcome = NotVisible
    /\ evalLog[2].outcome = TextRaised
    /\ evalLog[3].outcome = Visible
    /\ pageResult = Str("London, GB")

\* number of evaluations of candidate k in pass p
EvalCount(p, k) == Cardinality({i \in 1..Len(evalLog) : evalLog[i].pass = p /\ evalLog[i].index = k})

NoneSeenVisible == \A i \in 1..Len(evalLog) : evalLog[i].outcome # Visible

\* C2: a resolving method never raises; when no candidate resolved to a visible
\* element (every attempt reported not-visible or raised) it evaluated every
\* candidate at most once and returns None (getters) or False (predicates).
C2_AbsentNotError ==
    pageCall \in Resolvers =>
        /\ pagePc # "raised"
        /\ NoneSeenVisible =>
             /\ \A k \in 1..Len(SelectorsOf(pageCall)) : EvalCount(1, k) + EvalCount(2, k) <= 1
             /\ Len(evalLog) <= Len(SelectorsOf(pageCall))
             /\ pagePc = "returned" =>
                  /\ pageResult = AbsentOf(pageCall)
                  /\ Len(evalLog) = Len(SelectorsOf(pageCall))

\* get_error_message returned None after four failed attempts, raising ones included
C2_Witness ==
    /\ pageCall = "get_error_message"
    /\ pagePc = "returned"
    /\ pageResult = None
    /\ Len(evalLog) = 4
    /\ evalLog[1].outcome = VisibleRaised
    /\ evalLog[2].outcome = LocatorRaised
    /\ evalLog[4].outcome = NotVisible

\* a predicate returned False after its list was used up
C2_WitnessPredicate ==
    /\ pageCall = "is_weather_info_displayed"
    /\ pagePc = "returned"
    /\ pageResult = Bool(FALSE)
    /\ Len(evalLog) = 4

IsInputOp(op) == op.op \in {"fill", "press"}

\* C3 (as stated): search_for_city fills and presses Enter only on a candidate
\* that was found visible; when no candidate was found visible the first page
\* operation is the navigation to {ui_base_url}/find?q={city}.
C3_UrlFallback ==
    pageCall = "search_for_city" =>
        \A j \in 1..Len(pageOps) :
            IF \E i \in 1..Len(evalLog) : evalLog[i].outcome = Visible
              THEN pageOps[1].op = "fill"
              ELSE /\ ~IsInputOp(pageOps[j])
                   /\ pageOps[1].op = "goto"
                   /\ pageOps[1].arg = <<ui_base_url, "/find?q=", city>>

-----------------------------------------------------------------------------
(* Properties of the API wrapper *)

Success2xx == 200..299

\* C4: an operation that completes returns exactly {status, headers, data};
\* status is the response's HTTP status, and data is the parsed JSON body if
\* and only if the status is 2xx, the raw response text otherwise.
C4_EnvelopeAsymmetry ==
    apiPc = "returned" =>
        /\ DOMAIN envelope = {"status", "headers", "data"}
        /\ envelope.status = apiResponse.status
        /\ envelope.headers = apiResponse.headers
        /\ (apiResponse.status \in Success2xx) <=> (envelope.data.py # "str")
        /\ apiResponse.status \in Success2xx =>
              /\ envelope.data = ParseJson(apiResponse.body)
              /\ envelope.data.py \in {"dict", "list"}
        /\ apiResponse.status \notin Success2xx =>
              envelope.data = PyStr(apiResponse.body)

\* a 404 whose body is JSON comes back as raw text
C4_Witness ==
    /\ apiPc = "returned"
    /\ envelope.status = 404
    /\ envelope.data = PyStr(NotFoundBody)
    /\ ParseJson(NotFoundBody).py = "dict"

\* C5: every call of a request operation issues exactly one GET whatever the
\* response status is, and the value returned is built from the response to
\* that call's own request, also when the call repeats the previous arguments.
C5_OneRequestPerCall ==
    /\ requestsIssued = callCount
    /\ apiPc = "returned" =>
          /\ apiResponse.serial = callCount
          /\ envelope.status = apiResponse.status
          /\ envelope.headers = apiResponse.headers

\* a second call with the arguments of the first was answered on its own
C5_Witness ==
    /\ callCount = 2
    /\ repeated
    /\ requestsIssued = 2
    /\ apiPc = "returned"
    /\ apiResponse.serial = 2
    /\ envelope.status = 500

(* Properties of the validators *)

WeatherKeys == {"coord", "weather", "main", "wind", "clouds", "dt", "sys", "id", "name"}
ForecastKeys == {"cod", "message", "cnt", "list", "city"}

KeysOf(x) == DOMAIN x.items

\* C6: validate_weather_response is True exactly for a mapping that has all nine
\* weather keys, validate_forecast_response exactly for a mapping that has all
\* five forecast keys; extra keys do not matter, one missing key rejects, and a
\* non-mapping yields False.
C6_ShapeValidators ==
    /\ valDone = "validate_weather_response" =>
          (valResult <=> (valInput.py = "dict" /\ WeatherKeys \subseteq KeysOf(valInput)))
    /\ valDone = "validate_forecast_response" =>
          (valResult <=> (valInput.py = "dict" /\ ForecastKeys \subseteq KeysOf(valInput)))

\* a forecast mapping without 'list' (and with an extra key) was rejected
C6_Witness ==
    /\ valDone = "validate_forecast_response"
    /\ valInput.py = "dict"
    /\ KeysOf(valInput) = {"cod", "message", "cnt", "city", "base"}
    /\ valResult = FALSE

-----------------------------------------------------------------------------
(* Properties of get_settings and of the fixture graph *)

TestIds == 1..Len(tests)

\* setup steps whose failure has nothing to do with the configuration
BrowserSteps == {"browser", "context.new_context", "context.tracing_start", "page", "api_context"}

\* C7 (as stated): with no API key in the environment every finished test that
\* needs the key was skipped - it neither failed nor ended in an error (other
\* than a failure of the browser or of the HTTP context themselves).
C7_MissingKeySkips ==
    envKey = "unset" =>
        \A t \in TestIds :
            (tests[t].done /\ NeedsApiKey(tests[t].kind)) =>
                \/ tests[t].outcome = "skipped"
                \/ (tests[t].outcome = "error" /\ tests[t].error_at \in BrowserSteps)

\* C8: the Settings record is built at most once, not before the first
\* get_settings() call, and every call that returns yields that one instance.
C8_SettingsSingleton ==
    /\ constructed <= 1
    /\ settingsCalls = 0 => (constructed = 0 /\ _settings = 0)
    /\ returned \subseteq {1}
    /\ _settings # 0 => (_settings = 1 /\ constructed = 1)
    /\ returned # {} => _settings = 1

\* the fixture, a page object, an API client and a test body all got instance 1
C8_Witness ==
    /\ settingsCalls >= 4
    /\ constructed = 1
    /\ returned = {1}

Released(t) ==
    /\ tests[t].context \in {"none", "closed"}
    /\ tests[t].page \in {"none", "closed"}
    /\ tests[t].api_context \in {"none", "disposed"}

\* C9 (as stated): when the scope of a test has been left, every context, page
\* and API request context its fixtures created has been closed or disposed,
\* whatever the test outcome and whichever setup or teardown step raised.
C9_GuaranteedRelease ==
    \A t \in TestIds : tests[t].done => Released(t)

\* C10 (as stated): the browser is launched at most once in a session, and it
\* is closed only after every context and page of every test has been closed
\* by its own fixture.
C10_OneBrowser ==
    /\ launchCount <= 1
    /\ browser \in {"closed", "open"} => launchCount = 1
    /\ browser = "closed" =>
          \A t \in TestIds : tests[t].context \in {"none", "closed"} /\ tests[t].page \in {"none", "closed"}

\* ---------------------------------------------------------------------------
\* C11  Page before context.  The page of a test is created from that test's
\* context (page fixture, line 129: context.new_page()), so it belongs to that
\* one context; it is open only while its context is open, and whenever the
\* context has been closed (by its fixture or together with the browser) the
\* page is no longer open: page.close() precedes the close of the context.
ContextGone(t) == tests[t].context \in {"closed", "closed_by_browser"}

C11_PageBeforeContext ==
    \A t \in TestIds :
        /\ tests[t].page # "none" => tests[t].context # "none"
        /\ tests[t].page = "open" => tests[t].context = "open"
        /\ ContextGone(t) => tests[t].page \in {"none", "closed"}

\* a test whose page was created, used and closed, and whose context was
\* closed after it
C11_Witness ==
    \E t \in TestIds :
        /\ tests[t].rep_call # "none"
        /\ tests[t].page = "closed"
        /\ tests[t].context = "closed"

\* ---------------------------------------------------------------------------
\* C12  Trace recording scope.  Tracing is started in the context fixture
\* before the fixture yields, so a page exists only on a context whose tracing
\* has been started; at the teardown of every context on which tracing was
\* started tracing.stop(path=...) is called, whatever the outcome of the test,
\* and the context is closed only after the trace has been stopped and saved.
TracingStopCalled(t) == tests[t].tracing \in {"stopped", "stop_raised"}

C12_TraceScope ==
    \A t \in TestIds :
        /\ tests[t].page # "none" => tests[t].tracing # "off"
        /\ tests[t].tracing # "off" => tests[t].context # "none"
        /\ tests[t].context = "closed" => tests[t].tracing = "stopped"
        /\ (tests[t].done /\ tests[t].tracing # "off") => TracingStopCalled(t)

\* a test whose call failed and whose trace was stopped and saved before its
\* context was closed
C12_Witness ==
    \E t \in TestIds :
        /\ tests[t].rep_call = "failed"
        /\ tests[t].tracing = "stopped"
        /\ tests[t].context = "closed"
        /\ tests[t].done

\* ---------------------------------------------------------------------------
\* C13  Failure screenshot before release.  page.screenshot(...) is called for
\* a test exactly when its call report failed: a test that passed, was skipped
\* or never reached its body has no screenshot, and for a failed test the
\* screenshot call has been made by the time its page is closed or its context
\* is gone, i.e. it is made while both are still open.
ScreenshotCalled(t) == tests[t].screenshot # "none"

C13_ScreenshotBeforeRelease ==
    \A t \in TestIds :
        /\ ScreenshotCalled(t) => tests[t].rep_call = "failed"
        /\ (tests[t].rep_call = "failed" /\ tests[t].page = "closed")
              => ScreenshotCalled(t)
        /\ (tests[t].rep_call = "failed" /\ tests[t].context # "open")
              => ScreenshotCalled(t)
        /\ (tests[t].rep_call = "failed" /\ tests[t].tracing # "on")
              => ScreenshotCalled(t)

\* a failed test with its screenshot saved, page and context closed afterwards
C13_Witness ==
    \E t \in TestIds :
        /\ tests[t].rep_call = "failed"
        /\ tests[t].screenshot = "taken"
        /\ tests[t].page = "closed"
        /\ tests[t].context = "closed"

\* a passed test that went through its whole teardown without a screenshot
C13_WitnessPassed ==
    \E t \in TestIds :
        /\ tests[t].rep_call = "passed"
        /\ tests[t].screenshot = "none"
        /\ tests[t].done

\* ---------------------------------------------------------------------------
\* C14  Resource sharing.  browser.new_context() and context.new_page() are
\* called by function-scoped fixtures, once for each test.
ContextsCreated == Cardinality({t \in TestIds : tests[t].context # "none"})
PagesCreated == Cardinality({t \in TestIds : tests[t].page # "none"})
BodyRan(t) == tests[t].rep_call # "none"

IsNetworkIdleWait(o) ==
    o.op = "wait_for_load_state" /\ o.arg = <<"networkidle">> /\ ~o.raised

C15_WaitBeforeReturn ==
    (pageCall = "search_for_city" /\ pagePc = "returned") =>
        LET n == Len(pageOps)
        IN /\ n >= 2
           /\ IsNetworkIdleWait(pageOps[n])
           /\ \A j \in 1..n : ~pageOps[j].raised
           /\ \/ /\ n = 3
                 /\ pageOps[1].op = "fill"
                 /\ pageOps[2].op = "press"
              \/ /\ n = 2
                 /\ pageOps[1].op = "goto"

\* a search through a visible input that returned after fill, press and wait
C15_Witness ==
    /\ pageCall = "search_for_city"
    /\ pagePc = "returned"
    /\ Len(pageOps) = 3
    /\ pageOps[2].op = "press"
    /\ IsNetworkIdleWait(pageOps[3])

\* a search through the URL fallback that returned after goto and wait
C15_WitnessUrl ==
    /\ pageCall = "search_for_city"
    /\ pagePc = "returned"
    /\ Len(pageOps) = 2
    /\ pageOps[1].op = "goto"
    /\ IsNetworkIdleWait(pageOps[2])

\* ---------------------------------------------------------------------------
\* the outcomes in which evaluating a candidate raised inside the try
Throws(o) == o \in {LocatorRaised, VisibleRaised, TextRaised}

\* C16 (as stated): in every resolution loop, the search-input loop included,
\* a candidate whose evaluation raised counts as a candidate that did not match:
\* the error does not end the call (a call ends raised only in a page operation
\* after the loop), the call never returns the text or the verdict of such a
\* candidate, and fill / press are never issued on such a candidate.
C16_ThrowingAsNonMatching ==
    /\ pagePc = "raised" => (pageOps # <<>> /\ pageOps[Len(pageOps)].raised)
    /\ (pageCall \in Resolvers /\ pagePc = "returned" /\ pageResult # AbsentOf(pageCall))
          => ~Throws(LastEval.outcome)
    /\ \A j \in 1..Len(pageOps) :
          IsInputOp(pageOps[j]) =>
              \A i \in 1..Len(evalLog) :
                  evalLog[i].index = pageOps[j].target => ~Throws(evalLog[i].outcome)

\* ---------------------------------------------------------------------------
\* C17  Hard failure of the fallback.  When search_for_city navigates to the
\* search URL and the navigation raises, the call ends raised at once: the
\* failed navigation is the only page operation of the call, so nothing is
\* retried, no input is used and the wait for network idle is not executed.
C17_NavigationErrorPropagates ==
    pageCall = "search_for_city" =>
        \A j \in 1..Len(pageOps) :
            (pageOps[j].op = "goto" /\ pageOps[j].raised) =>
                /\ pagePc = "raised"
                /\ pageResult = None
                /\ pageOps = <<PageOp("goto", 0, search_url(city), TRUE)>>

\* the navigation of the fallback raised
C17_Witness ==
    /\ pageCall = "search_for_city"
    /\ search_input = 0
    /\ pagePc = "raised"
    /\ Len(pageOps) = 1
    /\ pageOps[1].op = "goto"
    /\ pageOps[1].raised

\* ---------------------------------------------------------------------------
\* test_invalid_city_handling, line 66: the assertion of line 67 runs only when
\* the data of the envelope is a dict
ErrorStructureAsserted(env) == IsDict(env.data)

\* Python "word in text" for the words the test looks for, on the bodies above
TextContains(body, word) ==
    /\ body \in {NotFoundBody, ForecastBody}
    /\ word \in {"message", "cod"}

InvalidCityAnswered ==
    /\ apiPc = "returned"
    /\ apiResponse.status = 404
    /\ apiResponse.body = NotFoundBody

\* C18 (as stated): for a 404 answer with the JSON error body the envelope has
\* status 404 and its data is a mapping with the key message or cod, so that
\* the assertion of the test on the error structure is exercised.
C18_ErrorStructureExercised ==
    InvalidCityAnswered =>
        /\ envelope.status = 404
        /\ ErrorStructureAsserted(envelope)
        /\ {"message", "cod"} \cap DOMAIN envelope.data.items # {}

\* C18 (amended): for a 404 answer with the JSON error body the envelope has
\* status 404 and its data is the body as text, not parsed; the text contains
\* the words message and cod, and since it is not a dict the test skips its
\* assertion on the error structure.
C18_ErrorBodyAsText ==
    InvalidCityAnswered =>
        /\ envelope.status = 404
        /\ envelope.data = PyStr(NotFoundBody)
        /\ TextContains(envelope.data.str, "message")
        /\ TextContains(envelope.data.str, "cod")
        /\ ~ErrorStructureAsserted(envelope)

\* get_current_weather for the invalid city, answered 404 with the error body
C18_Witness ==
    /\ InvalidCityAnswered
    /\ lastRequest.url = <<openweather_base_url, "/weather">>
    /\ lastRequest.params["q"] = "InvalidCityName123456789"
    /\ envelope.status = 404

\* ---------------------------------------------------------------------------
\* C20  Endpoint and parameter routing.
WeatherOps == {"get_current_weather", "get_weather_by_coordinates", "get_weather_by_city_id"}
RequestOps == WeatherOps \cup {"get_5_day_forecast", "search_cities"}

\* the locator parameters each operation sends
LocatorKeys(op) ==
    CASE op = "get_weather_by_coordinates" -> {"lat", "lon"}
      [] op = "get_weather_by_city_id" -> {"id"}
      [] OTHER -> {"q"}

\* the URL the claim gives for each operation
RoutedUrl(op) ==
    CASE op \in WeatherOps -> <<openweather_base_url, "/weather">>
      [] op = "get_5_day_forecast" -> <<openweather_base_url, "/forecast">>
      [] OTHER -> <<geocoding_url>>

\* C20 (as stated): each operation sends its GET to its URL with its locator
\* parameters, and every request carries the configured API key as appid and a
\* units parameter, which is metric when the caller gives none.
C20_Routing ==
    lastCall.op \in RequestOps =>
        LET p == lastRequest.params
        IN /\ lastRequest.url = RoutedUrl(lastCall.op)
           /\ LocatorKeys(lastCall.op) \subseteq DOMAIN p
           /\ "appid" \in DOMAIN p
           /\ p["appid"] = openweather_api_key
           /\ "units" \in DOMAIN p
           /\ "units" \notin DOMAIN lastCall.kwargs => p["units"] = "metric"

\* C20 (amended): each operation sends its GET to its URL with its locator
\* parameters, which hold the arguments of the call unless a keyword argument
\* of the same name replaces them.  The four weather and forecast requests
\* carry appid, the configured key unless the caller passes appid, and units,
\* metric unless the caller passes units.  The request of search_cities has
\* exactly q, limit and the configured key as appid, and no units.
C20_RoutingPerOperation ==
    lastCall.op \in RequestOps =>
        LET p == lastRequest.params
            kw == lastCall.kwargs
            a == lastCall.args
        IN /\ lastRequest.url = RoutedUrl(lastCall.op)
           /\ LocatorKeys(lastCall.op) \subseteq DOMAIN p
           /\ "appid" \in DOMAIN p
           /\ IF lastCall.op = "search_cities"
                THEN /\ DOMAIN p = {"q", "limit", "appid"}
                     /\ p["q"] = a[1]
                     /\ p["limit"] = a[2]
                     /\ p["appid"] = openweather_api_key
                ELSE /\ "units" \in DOMAIN p
                     /\ p["units"] = DictGet(kw, "units", "metric")
                     /\ p["appid"] = DictGet(kw, "appid", openweather_api_key)
                     /\ lastCall.op = "get_weather_by_coordinates" =>
                           /\ p["lat"] = DictGet(kw, "lat", a[1])
                           /\ p["lon"] = DictGet(kw, "lon", a[2])
                     /\ lastCall.op = "get_weather_by_city_id" =>
                           p["id"] = DictGet(kw, "id", a[1])
                     /\ lastCall.op \in {"get_current_weather", "get_5_day_forecast"} =>
                           p["q"] = DictGet(kw, "q", a[1])

\* a forecast request made without keyword arguments: /forecast, q, the
\* configured key and units metric
C20_Witness ==
    /\ lastCall = Call("get_5_day_forecast", <<"London">>, EmptyMap)
    /\ apiPc = "awaiting"
    /\ lastRequest = Request(<<openweather_base_url, "/forecast">>,
                             [q |-> "London", appid |-> openweather_api_key, units |-> "metric"])

\* a city search: the geocoding URL and no units parameter
C20_WitnessSearch ==
    /\ lastCall.op = "search_cities"
    /\ apiPc = "awaiting"
    /\ lastRequest.url = <<geocoding_url>>
    /\ "units" \notin DOMAIN lastRequest.params

-----------------------------------------------------------------------------
(* Properties of wait_for_condition *)

\* the condition was met within the timeout: it first became true no later
\* than timeout after the start of the call
MetWithinTimeout ==
    /\ firstTrue # {}
    /\ \A t \in firstTrue : t - start_time <= timeout

\* C19 (as stated): wait_for_condition returns normally only with the condition
\* true and met within timeout of the start of the call, never for a condition
\* that first became true after the timeout had elapsed; it goes on waiting
\* only while the timeout has not elapsed, and when it raises, it raises
\* TimeoutError carrying error_message.  (Stated for timeout >= 0.)
C19_TimeoutContract ==
    /\ waitPc = "returned" => condition
    /\ (waitPc = "returned" /\ timeout >= 0) => MetWithinTimeout
    /\ waitPc = "sleep" => wake_at - interval - start_time < timeout
    /\ waitPc = "raised" => waitExc = TimeoutError(error_message)

-----------------------------------------------------------------------------
(* More properties of the API wrapper *)

\* the GET of the latest call is over and no response came for it
GetFailedInTransport ==
    /\ callCount > 0
    /\ apiPc # "awaiting"
    /\ apiResponse = NoResponse

\* C21  Transport failure is surfaced.  When the GET of an operation fails in
\* transport the operation raises that error: it returns no envelope, with
\* neither a made-up status nor made-up data, and sends no second request.
C21_TransportFailureSurfaced ==
    GetFailedInTransport =>
        /\ apiPc = "raised"
        /\ apiExc = TransportError
        /\ envelope = NoEnvelope
        /\ requestsIssued = callCount

\* a second call failed in transport after a first call had returned
C21_Witness ==
    /\ callCount = 2
    /\ GetFailedInTransport
    /\ apiPc = "raised"
    /\ apiExc = TransportError

-----------------------------------------------------------------------------
(* More properties of the page object *)

\* the seven locators declared at weather_page.py:12-18
LogicalElements ==
    {SEARCH_INPUT, SEARCH_BUTTON, WEATHER_INFO, TEMPERATURE, CITY_NAME,
     WEATHER_DESCRIPTION, ERROR_MESSAGE}

\* the methods that resolve an element through a candidate list headed by its
\* locator; no method of the page object refers to SEARCH_BUTTON
ResolversOf(e) == {m \in Resolvers \cup {"search_for_city"} : SelectorsOf(m)[1] = e}

\* the candidate list an element is resolved through, <<>> when it has none
CandidatesOf(e) ==
    IF ResolversOf(e) = {} THEN <<>>
    ELSE SelectorsOf(CHOOSE m \in ResolversOf(e) : TRUE)

\* every evaluation the current call has made is the evaluation of the next
\* candidate of the list of its method
IteratesItsList ==
    \A i \in 1..Len(evalLog) :
        /\ evalLog[i].index \in 1..Len(SelectorsOf(pageCall))
        /\ evalLog[i].selector = SelectorsOf(pageCall)[evalLog[i].index]
        /\ i > 1 /\ evalLog[i].pass = evalLog[i-1].pass
              => evalLog[i].index = evalLog[i-1].index + 1

\* C22 (as stated): each of the seven logical elements, the search submit
\* included, is resolved through an ordered list of 3 to 5 candidate selectors
\* that a try-next-on-failure loop iterates.
C22_SevenElements ==
    /\ \A e \in LogicalElements : Len(CandidatesOf(e)) \in 3..5
    /\ IteratesItsList

\* C22 (amended): six of the seven logical elements, all but the search
\* submit, are resolved through an ordered list of 4 or 5 candidate selectors
\* headed by the declared locator and iterated in order; SEARCH_BUTTON is never
\* evaluated, and the search is submitted by press("Enter") on the input that
\* was resolved, never by a click.
C22_SixElements ==
    /\ \A e \in LogicalElements \ {SEARCH_BUTTON} : Len(CandidatesOf(e)) \in 4..5
    /\ CandidatesOf(SEARCH_BUTTON) = <<>>
    /\ IteratesItsList
    /\ \A i \in 1..Len(evalLog) : evalLog[i].selector # SEARCH_BUTTON
    /\ \A j \in 1..Len(pageOps) :
          /\ pageOps[j].op \in {"fill", "press", "goto", "wait_for_load_state"}
          /\ pageOps[j].op = "press" =>
                /\ pageOps[j].arg = <<"Enter">>
                /\ pageOps[j].target = search_input
                /\ pageOps[j].target \in 1..Len(search_selectors)

\* a search was submitted with Enter on the second input candidate, after the
\* first one was tried
C22_Witness ==
    /\ pageCall = "search_for_city"
    /\ Len(evalLog) = 2
    /\ Len(pageOps) >= 2
    /\ pageOps[2].op = "press"
    /\ pageOps[2].target = 2

-----------------------------------------------------------------------------
(* More properties of the session *)

\* C23  Configuration is read-only after initialization.  Once get_settings()
\* has bound the module-level singleton, no step of the fixtures, of the
\* constructors of the page object and of the API client, or of a test body
\* rebinds it, builds another Settings record or changes the environment value
\* it was built from: every later get_settings() call only reads.
C23_ConfigReadOnly ==
    [][ _settings # 0 =>
          /\ _settings' = _settings
          /\ constructed' = constructed
          /\ envKey' = envKey
          /\ returned' \subseteq {_settings} ]_vars

\* the singleton was read by the settings fixture, by the WeatherAPIClient
\* constructor and by a test body, and is still the first record
C23_Witness ==
    /\ _settings = 1
    /\ constructed = 1
    /\ settingsCalls >= 3
    /\ \E t \in TestIds : tests[t].done /\ tests[t].kind = "api_working"

\* C24  wait_for_condition terminates.  With the clock advancing and every
\* evaluation of the condition returning, a call that has started eventually
\* returns or raises; it has evaluated the condition at least once whenever it
\* raises, also when timeout <= 0; and when the first evaluation is true it
\* returns at the time it started, without having slept.
C24_Terminates ==
    /\ [](waitPc = "raised" =>
            (conditionCalls >= 1 /\ waitExc = TimeoutError(error_message)))
    /\ []((waitPc = "returned" /\ conditionCalls = 1) =>
            (clock = start_time /\ wake_at = start_time))
    /\ (WaitActive ~> WaitIdle)

\* a call with a negative timeout raised after one evaluation of the condition
C24_Witness ==
    /\ waitPc = "raised"
    /\ timeout < 0
    /\ conditionCalls = 1
    /\ clock = start_time

\* a call that slept several times before its timeout elapsed
C24_WitnessSlept ==
    /\ waitPc = "raised"
    /\ timeout = 2
    /\ conditionCalls >= 3

\* the evaluations of one pass of get_error_message
PassEntries(p) == {i \in 1..Len(evalLog) : evalLog[i].pass = p}
SeenVisibleIn(p) == \E i \in PassEntries(p) : evalLog[i].outcome = Visible

\* C25  get_error_message and is_error_displayed.  The first pass is the
\* whole resolution of is_error_displayed: it stops at its first visible
\* candidate.  Without a visible candidate the call returns None and no
\* candidate is evaluated a second time.  With one, the second pass starts the
\* same list again from its first candidate; a text is returned only when a
\* candidate was visible in both passes, and None is returned when no
\* candidate is visible any more in the second pass.
C25_TwoPasses ==
    pageCall = "get_error_message" =>
        /\ \A i \in PassEntries(1) :
              /\ i = evalLog[i].index
              /\ evalLog[i].outcome = Visible => PassEntries(1) = 1..i
        /\ PassEntries(2) # {} =>
              /\ SeenVisibleIn(1)
              /\ \A i \in PassEntries(2) :
                    /\ evalLog[i].index = i - Cardinality(PassEntries(1))
                    /\ evalLog[i].selector = error_selectors[evalLog[i].index]
        /\ (pagePc = "returned" /\ pageResult # None) =>
              /\ SeenVisibleIn(1)
              /\ LastEval.pass = 2
              /\ LastEval.outcome = Visible
              /\ pageResult = Str(LastEval.text)
        /\ (pagePc = "returned" /\ ~SeenVisibleIn(1)) =>
              /\ pageResult = None
              /\ PassEntries(2) = {}
              /\ Len(evalLog) = Len(error_selectors)
        /\ (pagePc = "returned" /\ SeenVisibleIn(1) /\ ~SeenVisibleIn(2)) =>
              /\ pageResult = None
              /\ Cardinality(PassEntries(2)) = Len(error_selectors)

\* the banner was seen by the first pass on the second candidate and was gone
\* in the second pass: None
C25_Witness ==
    /\ pageCall = "get_error_message"
    /\ pagePc = "returned"
    /\ pageResult = None
    /\ Cardinality(PassEntries(1)) = 2
    /\ SeenVisibleIn(1)
    /\ \A i \in PassEntries(2) : evalLog[i].outcome = NotVisible
    /\ Cardinality(PassEntries(2)) = Len(error_selectors)

\* the banner was visible in both passes, on different candidates
C25_WitnessText ==
    /\ pageCall = "get_error_message"
    /\ pagePc = "returned"
    /\ pageResult # None
    /\ Cardinality(PassEntries(1)) = 2
    /\ Cardinality(PassEntries(2)) = 1

\* the entries the wrapper writes into params before **kwargs
WrapperParams(c) ==
    CASE c.op \in {"get_current_weather", "get_5_day_forecast"} ->
           [q |-> c.args[1], appid |-> openweather_api_key, units |-> "metric"]
      [] c.op = "get_weather_by_coordinates" ->
           [lat |-> c.args[1], lon |-> c.args[2], appid |-> openweather_api_key,
            units |-> "metric"]
      [] c.op = "get_weather_by_city_id" ->
           [id |-> c.args[1], appid |-> openweather_api_key, units |-> "metric"]

C26_WitnessUnits ==
    /\ lastCall.op = "get_current_weather"
    /\ lastCall.kwargs = [units |-> "imperial"]
    /\ lastRequest.params["units"] = "imperial"

\* the GET of the latest call was answered with a success status and a body
\* that is not JSON
UnparsableSuccess ==
    /\ apiPc # "awaiting"
    /\ apiResponse # NoResponse
    /\ apiResponse.status \in Success2xx
    /\ ParseJson(apiResponse.body) = JSONDecodeError

\* C27  Success status with an unparsable body.  For a 2xx response the
\* wrapper parses the body as JSON and never hands back raw text: a 2xx
\* response whose body is not JSON makes the operation raise the decode error
\* and return no envelope, and an envelope returned for a 2xx response never
\* holds text as its data.
C27_UnparsableSuccessRaises ==
    /\ UnparsableSuccess =>
          /\ apiPc = "raised"
          /\ apiExc = JSONDecodeError
          /\ envelope = NoEnvelope
    /\ (apiPc = "returned" /\ apiResponse.status \in Success2xx) =>
          /\ envelope.data.py # "str"
          /\ envelope.data = ParseJson(apiResponse.body)

\* a 299 answer with an HTML body made the operation raise
C27_Witness ==
    /\ UnparsableSuccess
    /\ apiResponse.status = 299
    /\ apiResponse.body = HtmlBody
    /\ apiPc = "raised"

\* the tests whose trace was stopped and saved
TracesSaved == {t \in TestIds : tests[t].tracing = "stopped"}
LastOf(S) == CHOOSE t \in S : \A u \in S : u <= t

\* C28  Trace archive is overwritten per context.  Every context teardown
\* saves its trace to the one path test-results/trace.zip: however many traces
\* were saved in the session, the results directory holds one archive, and it
\* is the trace of the context whose trace was saved last; the traces saved by
\* earlier tests, failed ones included, are gone.
C28_TraceOverwritten ==
    /\ DOMAIN files \subseteq {<<"test-results/trace.zip">>}
    /\ TracesSaved = {} <=> DOMAIN files = {}
    /\ TracesSaved # {} =>
          files[<<"test-results/trace.zip">>] = LastOf(TracesSaved)

\* the first test failed and saved its trace, the second saved its own over it
C28_Witness ==
    /\ Cardinality(TracesSaved) = 2
    /\ tests[1].rep_call = "failed"
    /\ tests[2].done
    /\ files[<<"test-results/trace.zip">>] = 2

\* while a test body runs, of an API-only test as of any other, the session
\* browser is open and the test has an open context and an open page of its own
PageHeldDuringBody ==
    /\ sessPc = "call" =>
          /\ browser = "open"
          /\ launchCount = 1
          /\ Cur.context = "open"
          /\ Cur.page = "open"
    /\ \A t \in TestIds :
          BodyRan(t) => (tests[t].context # "none" /\ tests[t].page # "none")

\* C29 (as stated): every test, API-only tests included, has the browser
\* launched and a context and a page created before its body runs, and the
\* context and the page are torn down after the body.
C29_EveryTestAcquiresPage ==
    /\ PageHeldDuringBody
    /\ \A t \in TestIds :
          (tests[t].done /\ BodyRan(t)) =>
              (tests[t].page = "closed" /\ tests[t].context = "closed")

-----------------------------------------------------------------------------
(* Properties of get_logger *)

\* C30  get_logger is idempotent on handlers.  After any number of calls, a
\* logger that get_logger was asked for carries exactly one handler, the one
\* the first call for that name installed; a call for a logger that has a
\* handler creates none, so as many handlers were created as names were asked
\* for; and a record logged through the returned logger is emitted once.
C30_OneHandler ==
    /\ \A n \in LoggerNames :
          /\ Len(loggers[n].handlers) = IF n \in calledNames THEN 1 ELSE 0
          /\ loggers[n].level = IF n \in calledNames THEN "INFO" ELSE "NOTSET"
    /\ handlersMade = Cardinality(calledNames)
    /\ emitted <= 1
    /\ lastLogger # "" => Len(loggers[lastLogger].handlers) = 1

\* four calls for one logger, by its name and by the default name, and a
\* record logged through it
C30_Witness ==
    /\ loggerCalls = 4
    /\ calledNames = {logger_module_name}
    /\ handlersMade = 1
    /\ emitted = 1

====
